---- MODULE Spec2Model ----
(***************************************************************************)
(* Model of SimpleMCPServer (src/server.js): the tool registry, the        *)
(* handleToolCall dispatcher, the POST /sse and POST /mcp handlers and the *)
(* GET /sse event stream with its keep-alive timer.                        *)
(*                                                                         *)
(* Node runs every handler to completion on one event loop, so each        *)
(* handler, timer callback and event listener is one atomic action.        *)
(***************************************************************************)
EXTENDS Integers, Sequences, FiniteSets, TLC

(***************************************************************************)
(* Bounds of the model.                                                    *)
(***************************************************************************)
\* connections accepted on GET /sse over the run
NumConns == 2
\* keep-alive callbacks fired per connection
MaxKeepAlive == 2
\* readings of the wall clock (milliseconds since the epoch) are 0..MaxClock
MaxClock == 1

Conns == 1..NumConns

(***************************************************************************)
(* JavaScript values as they come out of express.json(): a value carries   *)
(* its type tag; a property that is missing from an object reads as        *)
(* undefined.                                                              *)
(***************************************************************************)
Undefined == [t |-> "undefined"]
Null == [t |-> "null"]
NaN == [t |-> "NaN"]
Str(s) == [t |-> "string", s |-> s]
Num(n) == [t |-> "number", n |-> n]
Obj(o) == [t |-> "object", o |-> o]

\* typeof v
TypeOf(v) ==
  CASE v.t = "NaN" -> "number"
    [] v.t = "null" -> "object"
    [] OTHER -> v.t

\* ToString(v), as a template literal `${v}` applies it
TemplateStr(v) ==
  CASE v.t = "string" -> v.s
    [] v.t = "number" -> ToString(v.n)
    [] v.t = "NaN" -> "NaN"
    [] v.t = "undefined" -> "undefined"
    [] v.t = "null" -> "null"
    [] OTHER -> "[object Object]"

\* ToNumber(v) for the operands of a numeric +
ToNumber(v) ==
  CASE v.t = "number" -> v
    [] v.t = "null" -> Num(0)
    [] OTHER -> NaN

\* x + y: concatenation when an operand is a string (or an object, whose
\* primitive is a string), numeric addition otherwise
JsAdd(x, y) ==
  IF x.t \in {"string", "object"} \/ y.t \in {"string", "object"}
  THEN Str(TemplateStr(x) \o TemplateStr(y))
  ELSE IF ToNumber(x).t = "NaN" \/ ToNumber(y).t = "NaN"
       THEN NaN
       ELSE Num(ToNumber(x).n + ToNumber(y).n)

(***************************************************************************)
(* Completions: a call returns a value or throws an error.                 *)
(***************************************************************************)
Return(v) == [ok |-> TRUE, value |-> v]
Throw(name, message) == [ok |-> FALSE, error |-> [name |-> name, message |-> message]]

\* new Date().toISOString() at clock reading ms (ms < 1000)
Pad3(n) ==
  IF n < 10 THEN "00" \o ToString(n)
  ELSE IF n < 100 THEN "0" \o ToString(n)
  ELSE ToString(n)

toISOString(ms) == "1970-01-01T00:00:00." \o Pad3(ms) \o "Z"

(***************************************************************************)
(* getTools(): the registry, a fresh literal on every call.                *)
(***************************************************************************)
Prop(key, type, description) == [key |-> key, type |-> type, description |-> description]

Tool(name, description, properties, required) ==
  [name |-> name,
   description |-> description,
   inputSchema |-> [type |-> "object", properties |-> properties, required |-> required]]

\* the registry with hello and echo in the other order
getToolsReordered ==
  << Tool("echo", "Echo back the input message",
          << Prop("message", "string", "Message to echo back") >>,
          << "message" >>),
     Tool("hello", "Say hello to someone",
          << Prop("name", "string", "Name of the person to greet") >>,
          << "name" >>),
     Tool("get_time", "Get the current time", << >>, << >>),
     Tool("add_numbers", "Add two numbers together",
          << Prop("a", "number", "First number"),
             Prop("b", "number", "Second number") >>,
          << "a", "b" >>) >>

\* the registry with a fifth descriptor that the dispatcher has no case for
getToolsExtra ==
  << Tool("hello", "Say hello to someone",
          << Prop("name", "string", "Name of the person to greet") >>,
          << "name" >>),
     Tool("echo", "Echo back the input message",
          << Prop("message", "string", "Message to echo back") >>,
          << "message" >>),
     Tool("get_time", "Get the current time", << >>, << >>),
     Tool("add_numbers", "Add two numbers together",
          << Prop("a", "number", "First number"),
             Prop("b", "number", "Second number") >>,
          << "a", "b" >>),
     Tool("multiply", "Multiply two numbers",
          << Prop("a", "number", "First number"),
             Prop("b", "number", "Second number") >>,
          << "a", "b" >>) >>

getTools ==
  << Tool("hello", "Say hello to someone",
          << Prop("name", "string", "Name of the person to greet") >>,
          << "name" >>),
     Tool("echo", "Echo back the input message",
          << Prop("message", "string", "Message to echo back") >>,
          << "message" >>),
     Tool("get_time", "Get the current time", << >>, << >>),
     Tool("add_numbers", "Add two numbers together",
          << Prop("a", "number", "First number"),
             Prop("b", "number", "Second number") >>,
          << "a", "b" >>) >>

(***************************************************************************)
(* handleToolCall(request).                                                *)
(***************************************************************************)
Nullish(v) == v.t \in {"undefined", "null"}

\* v === 'lit'
StrictEq(v, lit) == v.t = "string" /\ v.s = lit

\* obj.key on a value that is not undefined or null
Get(obj, key) ==
  IF obj.t = "object" /\ key \in DOMAIN obj.o THEN obj.o[key] ELSE Undefined

\* the TypeError of reading obj.key when obj is undefined or null
ReadError(obj, key) ==
  Throw("TypeError",
        "Cannot read properties of " \o TemplateStr(obj) \o " (reading '" \o key \o "')")

\* { content: [{ type: 'text', text }] }
TextContent(text) == [content |-> << [type |-> "text", text |-> text] >>]

\* hello reading args?.name
helloToolOptional(args) ==
  Return(TextContent(
    Str("Hello, " \o TemplateStr(Get(args, "name"))
        \o "! Welcome to the simple MCP server.")))

helloTool(args) ==
  IF Nullish(args) THEN ReadError(args, "name")
  ELSE Return(TextContent(
         Str("Hello, " \o TemplateStr(Get(args, "name"))
             \o "! Welcome to the simple MCP server.")))

echoTool(args) ==
  IF Nullish(args) THEN ReadError(args, "message")
  ELSE Return(TextContent(Str("Echo: " \o TemplateStr(Get(args, "message")))))

getTimeTool(ms) ==
  Return(TextContent(Str("Current time: " \o toISOString(ms))))

\* add_numbers returning the sum itself as the text
addNumbersNumeric(args) ==
  IF Nullish(args) THEN ReadError(args, "a")
  ELSE Return(TextContent(JsAdd(Get(args, "a"), Get(args, "b"))))

addNumbersTool(args) ==
  IF Nullish(args) THEN ReadError(args, "a")
  ELSE LET result == JsAdd(Get(args, "a"), Get(args, "b"))
       IN Return(TextContent(
            Str(TemplateStr(Get(args, "a")) \o " + " \o TemplateStr(Get(args, "b"))
                \o " = " \o TemplateStr(result))))

UnknownTool(name) == Throw("Error", "Unknown tool: " \o TemplateStr(name))

\* the error without the method in its message
UnknownMethodBare(method) == Throw("Error", "Unknown method")

UnknownMethod(method) == Throw("Error", "Unknown method: " \o TemplateStr(method))

\* request is the parsed body, ms the clock reading during the call
handleToolCall(request, ms) ==
  LET method == Get(request, "method")
      params == Get(request, "params")
  IN IF StrictEq(method, "tools/list") THEN Return([tools |-> getTools])
     ELSE IF StrictEq(method, "tools/call")
     THEN IF Nullish(params)
          THEN Throw("TypeError",
                     "Cannot destructure property 'name' of 'params' as it is "
                       \o TemplateStr(params) \o ".")
          ELSE LET name == Get(params, "name")
                   args == Get(params, "arguments")
               IN CASE StrictEq(name, "hello") -> helloTool(args)
                    [] StrictEq(name, "echo") -> echoTool(args)
                    [] StrictEq(name, "get_time") -> getTimeTool(ms)
                    [] StrictEq(name, "add_numbers") -> addNumbersTool(args)
                    [] OTHER -> UnknownTool(name)
     ELSE UnknownMethod(method)

(***************************************************************************)
(* The POST handlers: what each sends on res for a completion of           *)
(* handleToolCall.                                                         *)
(***************************************************************************)
Response(status, body) == [status |-> status, body |-> body]

\* app.post('/sse'): try { res.json(result) } catch { res.status(500).json(..) }
PostSseSent(c) ==
  IF c.ok THEN << Response(200, c.value) >>
  ELSE << Response(500, [error |-> c.error.message]) >>

\* the catch block answering without status(500)
PostMcpSentNoStatus(c) ==
  IF c.ok THEN << Response(200, c.value) >>
  ELSE << Response(200, [error |-> c.error.message]) >>

\* app.post('/mcp')
PostMcpSent(c) ==
  IF c.ok THEN << Response(200, c.value) >>
  ELSE << Response(500, [error |-> c.error.message]) >>

(***************************************************************************)
(* Request bodies the clients send.                                        *)
(***************************************************************************)
EmptyArgs == [name |-> Undefined, message |-> Undefined, a |-> Undefined, b |-> Undefined]
FullArgs == [name |-> Str("World"), message |-> Str("ping"), a |-> Num(2), b |-> Num(3)]
OnlyA == [name |-> Undefined, message |-> Undefined, a |-> Num(2), b |-> Undefined]
TextA == [name |-> Undefined, message |-> Undefined, a |-> Str("2"), b |-> Num(3)]

\* absent, null, mappings, and a string in the place of the mapping
ArgumentsSet == {Undefined, Null, Obj(EmptyArgs), Obj(FullArgs), Obj(OnlyA), Obj(TextA),
                 Str("World")}

NameSet == {Str("hello"), Str("echo"), Str("get_time"), Str("add_numbers"),
            Str("multiply"), Undefined}

MethodSet == {Str("tools/list"), Str("tools/call"), Str("resources/list"), Undefined}

\* absent, null, a string in the place of the object, and objects
ParamsSet == {Undefined, Null, Str("hello")} \cup
             {Obj([name |-> n, arguments |-> a]) : n \in NameSet, a \in ArgumentsSet}

\* params sent along with a method other than tools/call
OtherParams == {Undefined,
                Obj([name |-> Str("hello"), arguments |-> Obj(FullArgs)]),
                Obj([name |-> Str("multiply"), arguments |-> Undefined])}

Bodies ==
  {Obj([method |-> m, params |-> p]) : m \in {Str("tools/call")}, p \in ParamsSet}
  \cup
  {Obj([method |-> m, params |-> p]) : m \in MethodSet \ {Str("tools/call")}, p \in OtherParams}

\* the bodies posted while event streams are open: a listing with and
\* without params, a call that succeeds, a call that throws in its handler,
\* an unknown tool and an unknown method
StreamBodies ==
  {Obj([method |-> Str("tools/list"), params |-> Undefined]),
   Obj([method |-> Str("tools/list"),
        params |-> Obj([name |-> Str("multiply"), arguments |-> Undefined])]),
   Obj([method |-> Str("tools/call"),
        params |-> Obj([name |-> Str("get_time"), arguments |-> Obj(EmptyArgs)])]),
   Obj([method |-> Str("tools/call"),
        params |-> Obj([name |-> Str("hello"), arguments |-> Undefined])]),
   Obj([method |-> Str("tools/call"),
        params |-> Obj([name |-> Str("multiply"), arguments |-> Obj(FullArgs)])]),
   Obj([method |-> Undefined, params |-> Undefined])}

(***************************************************************************)
(* State.                                                                  *)
(***************************************************************************)
VARIABLES
  conn,   \* per GET /sse connection: accepted, frames written, timer, ended
  now,    \* the wall clock
  last    \* per POST endpoint, the latest exchange: the body received, the
          \* completion of handleToolCall and the responses sent on res

vars == <<conn, now, last>>

Endpoints == {"/sse", "/mcp"}

NoExchange == [handled |-> FALSE, body |-> Undefined, outcome |-> Return(Undefined),
               sent |-> << >>]

Exchange(body, c, sent) == [handled |-> TRUE, body |-> body, outcome |-> c, sent |-> sent]

\* a connection no client has opened yet
Unopened == [accepted |-> FALSE, status |-> 0, contentType |-> "",
             frames |-> << >>, timers |-> 0, ended |-> FALSE]

Init ==
  /\ conn = [c \in Conns |-> Unopened]
  /\ now = 0
  /\ last = [e \in Endpoints |-> NoExchange]

(***************************************************************************)
(* GET /sse.                                                               *)
(***************************************************************************)
initMessage == [jsonrpc |-> "2.0", method |-> "notifications/initialized", params |-> << >>]

toolsMessage == [jsonrpc |-> "2.0", method |-> "tools/list", params |-> [tools |-> getTools]]

\* res.write(`data: ${JSON.stringify(message)}\n\n`)
DataFrame(message) == [line |-> "data: ", json |-> message]

\* res.write(': keep-alive\n\n')
KeepAliveFrame == [line |-> ": keep-alive", json |-> << >>]

\* the two writes in the other order
HandshakeFramesSwapped == << DataFrame(toolsMessage), DataFrame(initMessage) >>

\* the two writes of the handler, in program order
HandshakeFrames == << DataFrame(initMessage), DataFrame(toolsMessage) >>

\* the handler of app.get('/sse'): headers, two data frames, setInterval
SseGet(c) ==
  /\ ~conn[c].accepted
  /\ conn' = [conn EXCEPT ![c] =
                [accepted |-> TRUE, status |-> 200, contentType |-> "text/event-stream",
                 frames |-> HandshakeFrames, timers |-> 1, ended |-> FALSE]]
  /\ UNCHANGED <<now, last>>

\* a callback that writes to every open stream
KeepAliveBroadcast(c) ==
  /\ conn[c].timers > 0
  /\ Len(conn[c].frames) < Len(HandshakeFrames) + MaxKeepAlive
  /\ conn' = [d \in Conns |->
                IF conn[d].accepted /\ ~conn[d].ended
                THEN [conn[d] EXCEPT !.frames = Append(@, KeepAliveFrame)]
                ELSE conn[d]]
  /\ UNCHANGED <<now, last>>

\* the setInterval callback of connection c
KeepAliveTick(c) ==
  /\ conn[c].timers > 0
  /\ Len(conn[c].frames) < Len(HandshakeFrames) + MaxKeepAlive
  /\ conn' = [conn EXCEPT ![c].frames = Append(@, KeepAliveFrame)]
  /\ UNCHANGED <<now, last>>

\* a listener that ends the response and leaves the interval running
SseCloseNoClear(c) ==
  /\ conn[c].accepted
  /\ ~conn[c].ended
  /\ conn' = [conn EXCEPT ![c].ended = TRUE]
  /\ UNCHANGED <<now, last>>

\* the req.on('close') listener of connection c: clearInterval, res.end()
SseClose(c) ==
  /\ conn[c].accepted
  /\ ~conn[c].ended
  /\ conn' = [conn EXCEPT ![c].timers = @ - 1, ![c].ended = TRUE]
  /\ UNCHANGED <<now, last>>

(***************************************************************************)
(* POST /sse and POST /mcp.                                                *)
(***************************************************************************)
PostSse(body) ==
  /\ last' = LET c == handleToolCall(body, now)
             IN [last EXCEPT !["/sse"] = Exchange(body, c, PostSseSent(c))]
  /\ UNCHANGED <<conn, now>>

PostMcp(body) ==
  /\ last' = LET c == handleToolCall(body, now)
             IN [last EXCEPT !["/mcp"] = Exchange(body, c, PostMcpSent(c))]
  /\ UNCHANGED <<conn, now>>

\* time passes
ClockTick ==
  /\ now < MaxClock
  /\ now' = now + 1
  /\ UNCHANGED <<conn, last>>

\* the whole server: event streams and POST requests interleaved
Next ==
  \/ \E c \in Conns : SseGet(c)
  \/ \E c \in Conns : KeepAliveTick(c)
  \/ \E c \in Conns : SseClose(c)
  \/ \E body \in StreamBodies : PostSse(body)
  \/ \E body \in StreamBodies : PostMcp(body)
  \/ ClockTick

Spec == Init /\ [][Next]_vars

\* the POST path alone, over every request body
NextPost ==
  \/ \E body \in Bodies : PostSse(body)
  \/ \E body \in Bodies : PostMcp(body)
  \/ ClockTick

SpecPost == Init /\ [][NextPost]_vars

(***************************************************************************)
(* Vocabulary of the properties.                                           *)
(***************************************************************************)
\* the names of the descriptors of the registry
RegistryNames == {getTools[i].name : i \in DOMAIN getTools}

\* the README's list of tools, in its order
README_Tools == << "hello", "echo", "get_time", "add_numbers" >>

Streaming(c) == conn[c].accepted /\ ~conn[c].ended
Closed(c) == conn[c].accepted /\ conn[c].ended
LiveTimers == {c \in Conns : conn[c].timers > 0}

MethodOf(x) == Get(x.body, "method")
ParamsOf(x) == Get(x.body, "params")
\* the tool name a request carries; absent when there is no params object
NameOf(x) == IF Nullish(ParamsOf(x)) THEN Undefined ELSE Get(ParamsOf(x), "name")
ArgumentsOf(x) == IF Nullish(ParamsOf(x)) THEN Undefined ELSE Get(ParamsOf(x), "arguments")

IsList(x) == x.handled /\ StrictEq(MethodOf(x), "tools/list")
IsCall(x) == x.handled /\ StrictEq(MethodOf(x), "tools/call")
Registered(name) == name.t = "string" /\ name.s \in RegistryNames

Failed(x) == ~x.outcome.ok
ThrewError(x, name, message) ==
  /\ Failed(x)
  /\ x.outcome.error.name = name
  /\ x.outcome.error.message = message
ThrewUnknownTool(x) == ThrewError(x, "Error", "Unknown tool: " \o TemplateStr(NameOf(x)))
ThrewUnknownMethod(x) ==
  ThrewError(x, "Error", "Unknown method: " \o TemplateStr(MethodOf(x)))

\* exactly one response, status 500, body {error: <message of the thrown error>}
Answered500(x) ==
  /\ Len(x.sent) = 1
  /\ x.sent[1].status = 500
  /\ Failed(x)
  /\ x.sent[1].body = [error |-> x.outcome.error.message]

\* exactly one response, status 200
Answered200(x) ==
  /\ Len(x.sent) = 1
  /\ x.sent[1].status = 200

(***************************************************************************)
(* C1: on every accepted GET /sse connection the frames written are, in    *)
(* order, the data frame of the initialized notification (empty params),   *)
(* the data frame of the tools/list notification carrying the whole        *)
(* registry, and after them keep-alive comment frames only: exactly two    *)
(* data frames, none of them after a keep-alive.                           *)
(***************************************************************************)
C1_FrameOrder ==
  \A c \in Conns :
    LET f == conn[c].frames
    IN /\ ~conn[c].accepted => f = << >>
       /\ conn[c].accepted =>
            /\ Len(f) >= 2
            /\ f[1].line = "data: "
            /\ f[1].json.method = "notifications/initialized"
            /\ f[1].json.jsonrpc = "2.0"
            /\ f[1].json.params = << >>
            /\ f[2].line = "data: "
            /\ f[2].json.method = "tools/list"
            /\ f[2].json.jsonrpc = "2.0"
            /\ f[2].json.params = [tools |-> getTools]
            /\ \A i \in 3..Len(f) : f[i].line = ": keep-alive"
            /\ Cardinality({i \in 1..Len(f) : f[i].line = "data: "}) = 2

\* a closed connection that got its keep-alives while another one was open
C1_Witness ==
  \E c, d \in Conns :
    /\ c # d
    /\ Closed(c)
    /\ Len(conn[c].frames) = 2 + MaxKeepAlive
    /\ Streaming(d)

(***************************************************************************)
(* C2: a keep-alive timer is live for a connection exactly when the        *)
(* connection is streaming, and then there is exactly one; the close event *)
(* cancels it; a closed connection is never written to and never changes   *)
(* again; once every opened connection is closed no timer is live.         *)
(***************************************************************************)
C2_TimerState ==
  /\ \A c \in Conns : conn[c].timers = IF Streaming(c) THEN 1 ELSE 0
  /\ (\A c \in Conns : conn[c].accepted => conn[c].ended) => LiveTimers = {}

C2_TimerOwnership ==
  [][ /\ C2_TimerState
      /\ C2_TimerState'
      /\ \A c \in Conns : Closed(c) => conn'[c] = conn[c]
      /\ \A c \in Conns : SseClose(c) => conn'[c].timers = 0 /\ conn'[c].ended ]_vars

\* every connection was opened, ticked and closed
C2_Witness ==
  \A c \in Conns : Closed(c) /\ Len(conn[c].frames) > 2

(***************************************************************************)
(* C3: every tools/call request whose tool name is not a registered name,  *)
(* an absent name included, makes the dispatcher throw the UnknownTool     *)
(* error carrying that name, produces no content envelope, and is answered *)
(* with status 500 and the body {error: <message>}.                        *)
(***************************************************************************)
C3_UnknownTool ==
  \A e \in Endpoints :
    LET x == last[e]
    IN IsCall(x) /\ ~Registered(NameOf(x)) =>
         ThrewUnknownTool(x) /\ Answered500(x)

(***************************************************************************)
(* C4: every request whose method is neither tools/list nor tools/call, an *)
(* absent method included, makes the dispatcher throw the UnknownMethod    *)
(* error carrying the method, whatever params holds, and is answered with  *)
(* status 500 and the body {error: <message>}.                             *)
(***************************************************************************)
C4_UnknownMethod ==
  \A e \in Endpoints :
    LET x == last[e]
    IN x.handled /\ ~IsList(x) /\ ~IsCall(x) =>
         ThrewUnknownMethod(x) /\ Answered500(x)

\* a request without a method whose params name a registered tool
C4_Witness ==
  \E e \in Endpoints :
    /\ last[e].handled
    /\ MethodOf(last[e]).t = "undefined"
    /\ Registered(NameOf(last[e]))
    /\ last[e].sent[1].body = [error |-> "Unknown method: undefined"]

(***************************************************************************)
(* C5: the names of the registry's descriptors are the names the           *)
(* dispatcher handles: a tools/call request is sent to UnknownTool exactly *)
(* when its name is not the name of a descriptor.                          *)
(***************************************************************************)
C5_LockStep ==
  \A e \in Endpoints :
    LET x == last[e]
    IN IsCall(x) /\ ~Nullish(ParamsOf(x)) =>
         (Registered(NameOf(x)) <=> ~ThrewUnknownTool(x))

\* one endpoint served a registered tool, the other refused an unregistered one
C5_Witness ==
  /\ IsCall(last["/sse"])
  /\ StrictEq(NameOf(last["/sse"]), "add_numbers")
  /\ last["/sse"].outcome.ok
  /\ IsCall(last["/mcp"])
  /\ StrictEq(NameOf(last["/mcp"]), "multiply")
  /\ ThrewUnknownTool(last["/mcp"])

(***************************************************************************)
(* C6: every successful tools/call response is an envelope whose content   *)
(* list has exactly one item, of type text, with a string text.            *)
(***************************************************************************)
C6_OneTextItem ==
  \A e \in Endpoints :
    LET x == last[e]
    IN IsCall(x) /\ x.outcome.ok =>
         /\ Answered200(x)
         /\ DOMAIN x.sent[1].body = {"content"}
         /\ Len(x.sent[1].body.content) = 1
         /\ x.sent[1].body.content[1].type = "text"
         /\ TypeOf(x.sent[1].body.content[1].text) = "string"

\* add_numbers answered for numbers and for a mapping without b
C6_Witness ==
  /\ IsCall(last["/sse"])
  /\ last["/sse"].outcome.ok
  /\ last["/sse"].sent[1].body.content[1].text = Str("2 + 3 = 5")
  /\ IsCall(last["/mcp"])
  /\ last["/mcp"].outcome.ok
  /\ last["/mcp"].sent[1].body.content[1].text = Str("2 + undefined = NaN")

(***************************************************************************)
(* C7: a tools/list request always succeeds, whatever params holds, and    *)
(* returns {tools: ...} with the four descriptors in the order hello,      *)
(* echo, get_time, add_numbers, each name once; the listing is the same on *)
(* every call, whatever tool calls, stream opens and stream closes came    *)
(* before.                                                                 *)
(***************************************************************************)
C7_StableListing ==
  /\ \A e \in Endpoints :
       LET x == last[e]
       IN IsList(x) =>
            /\ x.outcome.ok
            /\ Answered200(x)
            /\ DOMAIN x.sent[1].body = {"tools"}
            /\ Len(x.sent[1].body.tools) = Len(README_Tools)
            /\ \A i \in 1..Len(README_Tools) :
                 x.sent[1].body.tools[i].name = README_Tools[i]
            /\ \A i, j \in 1..Len(x.sent[1].body.tools) :
                 x.sent[1].body.tools[i].name = x.sent[1].body.tools[j].name => i = j
            /\ x.sent[1].body.tools = getTools
  /\ IsList(last["/sse"]) /\ IsList(last["/mcp"]) =>
       last["/sse"].sent = last["/mcp"].sent

\* listings with and without params, after a stream was closed and while
\* another one is open
C7_Witness ==
  /\ IsList(last["/sse"])
  /\ IsList(last["/mcp"])
  /\ ParamsOf(last["/sse"]) # ParamsOf(last["/mcp"])
  /\ \E c, d \in Conns : Closed(c) /\ Streaming(d)

(***************************************************************************)
(* C8 as stated: each POST request gets exactly one response, status 200   *)
(* with the dispatcher's result when it returns and status 500 with        *)
(* {error: <message>} when it throws, and for the same request body the    *)
(* two endpoints return the same status and the same body.                 *)
(***************************************************************************)
OneResponse(x) ==
  x.handled =>
    /\ x.outcome.ok => x.sent = << [status |-> 200, body |-> x.outcome.value] >>
    /\ ~x.outcome.ok =>
         x.sent = << [status |-> 500, body |-> [error |-> x.outcome.error.message]] >>

SameBody == last["/sse"].handled /\ last["/mcp"].handled
            /\ last["/sse"].body = last["/mcp"].body

C8_SameResponse ==
  /\ \A e \in Endpoints : OneResponse(last[e])
  /\ SameBody => last["/sse"].sent = last["/mcp"].sent

(***************************************************************************)
(* C8 amended: each POST request gets exactly one response, status 200     *)
(* with the dispatcher's result when it returns and status 500 with        *)
(* {error: <message>} when it throws; for the same request body the two    *)
(* endpoints return the same status, and the same body unless the request  *)
(* is a get_time call, whose two texts are "Current time: " followed by    *)
(* the time of each call.                                                  *)
(***************************************************************************)
TimeTexts == {Str("Current time: " \o toISOString(t)) : t \in 0..MaxClock}

C8_SameResponseUpToTime ==
  /\ \A e \in Endpoints : OneResponse(last[e])
  /\ SameBody =>
       /\ Len(last["/sse"].sent) = 1
       /\ Len(last["/mcp"].sent) = 1
       /\ last["/sse"].sent[1].status = last["/mcp"].sent[1].status
       /\ \/ last["/sse"].sent = last["/mcp"].sent
          \/ /\ IsCall(last["/sse"])
             /\ StrictEq(NameOf(last["/sse"]), "get_time")
             /\ \A e \in Endpoints :
                  /\ last[e].sent[1].status = 200
                  /\ last[e].sent[1].body.content[1].text \in TimeTexts

\* the same failing body on both endpoints, after the clock moved
C8_Witness ==
  /\ SameBody
  /\ now > 0
  /\ IsCall(last["/sse"])
  /\ Failed(last["/sse"])
  /\ last["/mcp"].sent[1].status = 500

(***************************************************************************)
(* C9: an open, a keep-alive tick or a close on one connection leaves      *)
(* every other connection as it was, and handling a POST /sse or POST /mcp *)
(* request, whether it succeeds or fails, leaves every connection as it    *)
(* was.                                                                    *)
(***************************************************************************)
C9_Independence ==
  [][ /\ \A c \in Conns :
           (SseGet(c) \/ KeepAliveTick(c) \/ SseClose(c)) =>
             \A d \in Conns \ {c} : conn'[d] = conn[d]
      /\ (\E body \in StreamBodies : PostSse(body) \/ PostMcp(body)) =>
           conn' = conn ]_vars

\* a failed and a successful POST next to a ticking and a closed stream
C9_Witness ==
  /\ last["/sse"].handled
  /\ Failed(last["/sse"])
  /\ last["/mcp"].handled
  /\ ~Failed(last["/mcp"])
  /\ \E c, d \in Conns :
       Streaming(c) /\ Len(conn[c].frames) > 2 /\ Closed(d) /\ Len(conn[d].frames) > 2

====
